---- MODULE Spec2Model ----
(***************************************************************************)
(* Model of network_importer/main.py (class NetworkImporter).              *)
(*                                                                         *)
(* Two parts of the class are modelled:                                    *)
(*   - import_cabling_from_configs: the loop over the layer-3 edges that   *)
(*     decides, per edge, whether a cable is created in NetBox;            *)
(*   - init / check_nb_params: the start-up sequence.                      *)
(*                                                                         *)
(* Names (hosts, interfaces, keys) are sequences of one-character strings  *)
(* so that re.sub, the f-strings, sorted() and "_".join() are computed as  *)
(* Python computes them.                                                   *)
(***************************************************************************)
EXTENDS Integers, Sequences, FiniteSets, TLC

VARIABLES
    import_cabling,           \* config.main["import_cabling"]
    devs,                     \* self.devs.inventory.hosts: host -> data["obj"].interfaces
    links,                    \* tuples yielded so far by p2p_links.frame().itertuples()
    pos,                      \* number of tuples the current pass has taken
    pc,                       \* position of import_cabling_from_configs
    run,                      \* 1: first pass, 2: pass repeated over the same tuples
    already_connected_links,  \* the dict of line 522 (its keys)
    requests,                 \* calls of self.nb.dcim.cables.create, in order
    outcomes,                 \* what each loop iteration logged / did, in order
    check_mode,               \* self.check_mode
    inventory_source,         \* config.main["inventory_source"]
    generate_hostvars,        \* config.main["generate_hostvars"]
    hostvars_directory,       \* whether config.main["hostvars_directory"] exists on disk
    init_pc,                  \* position of init
    nb,                       \* self.nb is set
    probe,                    \* how self.nb.dcim.devices.get(name="notpresent") ended
    bf,                       \* self.bf is set and its snapshot initialized
    inventory_built,          \* self.devs is set
    hosts,                    \* self.devs.inventory.hosts: host -> state of its data
    sites,                    \* self.sites (its keys)
    exit_status,              \* <<>> while the process runs, <<n>> after sys.exit(n)
    critical,                 \* the logger.critical messages, in order
    import_vlans,             \* config.main["import_vlans"]
    import_transceivers,      \* config.main["import_transceivers"]
    is_reacheable,            \* host -> h.data["is_reacheable"]
    failed_hosts,             \* the hosts Nornir holds as failed (data.failed_hosts)
    failures,                 \* <<step, host>>: the per-device tasks that failed
    included,                 \* <<step, host>>: the per-device steps run for a host
    vlans,                    \* site -> the Vlan records of site.vlans, in order of insertion
    discovered,               \* site -> <<vid, host>>: the vids the import loops met, per device
    run_pc,                   \* position of the run after init
    crashed_on                \* <<h>>: the host whose data made a loop raise

cabling_vars == <<import_cabling, devs, links, pos, pc, run,
                  already_connected_links, requests, outcomes>>

init_vars == <<check_mode, inventory_source, generate_hostvars, hostvars_directory,
               init_pc, nb, probe, bf, inventory_built, hosts, sites, exit_status,
               critical>>

device_vars == <<import_vlans, import_transceivers, is_reacheable, failed_hosts,
                 failures, included, vlans, discovered, run_pc, crashed_on>>

vars == <<cabling_vars, init_vars, device_vars>>

-----------------------------------------------------------------------------
(* Bounds *)

\* longest sequence of layer-3 edges a pass iterates over
MaxLinks == 2

-----------------------------------------------------------------------------
(* Characters and strings *)

Digits == {"1", "2", "7", "8"}

\* code point of a character, the order sorted() compares strings by
CharOrd(c) ==
    CASE c = "." -> 46
      [] c = "1" -> 49
      [] c = "2" -> 50
      [] c = "7" -> 55
      [] c = "8" -> 56
      [] c = ":" -> 58
      [] c = "_" -> 95
      [] c = "a" -> 97
      [] c = "b" -> 98
      [] c = "c" -> 99
      [] c = "e" -> 101

Min(x, y) == IF x < y THEN x ELSE y

\* s < t for Python strings: first differing code point, a proper prefix is smaller
StrLess(s, t) ==
    \E k \in 1..(Min(Len(s), Len(t)) + 1) :
        /\ \A j \in 1..(k - 1) : s[j] = t[j]
        /\ \/ k > Len(s) /\ k <= Len(t)
           \/ k <= Len(s) /\ k <= Len(t) /\ CharOrd(s[k]) < CharOrd(t[k])

\* sorted([x, y])
SortedPair(x, y) == IF StrLess(y, x) THEN <<y, x>> ELSE <<x, y>>

\* re.sub("\.\d+$", "", name): drop one trailing ".<digits>"
StripSubinterface(name) ==
    LET cut == { i \in 1..(Len(name) - 1) :
                    /\ name[i] = "."
                    /\ \A j \in (i + 1)..Len(name) : name[j] \in Digits }
    IN  IF cut = {} THEN name
        ELSE SubSeq(name, 1, (CHOOSE i \in cut : \A j \in cut : i <= j) - 1)

\* f"{host}:{intf}"
EndpointStr(host, intf) == host \o <<":">> \o intf

\* a "_".join that forgets sorted(): the key depends on the direction
UniqueIdUnsorted(local_host, local_intf, remote_host, remote_intf) ==
    EndpointStr(local_host, local_intf) \o <<"_">> \o EndpointStr(remote_host, remote_intf)

\* "_".join(sorted([f"{local_host}:{local_intf}", f"{remote_host}:{remote_intf}"]))
UniqueId(local_host, local_intf, remote_host, remote_intf) ==
    LET p == SortedPair(EndpointStr(local_host, local_intf),
                        EndpointStr(remote_host, remote_intf))
    IN  p[1] \o <<"_">> \o p[2]

-----------------------------------------------------------------------------
(* The entity model read by the cabling pass *)

HostA == <<"a">>
HostB == <<"b">>
HostC == <<"c">>      \* a device outside the inventory
E1 == <<"e", "1">>
E2 == <<"e", "2">>

Endpoint(host, intf) == [device |-> host, name |-> intf]

\* remote.connected_endpoint is None
NoEndpoint == [present |-> FALSE, device |-> <<>>, name |-> <<>>]

\* remote.connected_endpoint.device.name / .name
ConnectedTo(end) == [present |-> TRUE, device |-> end.device, name |-> end.name]

\* interface.remote is None
NoRemote ==
    [present |-> FALSE, id |-> 0, connection_status |-> FALSE,
     connected_endpoint |-> NoEndpoint]

\* the id NetBox gave the interface (remote.id)
RemoteId(host, intf) ==
    CASE host = HostA /\ intf = E1 -> 11
      [] host = HostA /\ intf = E2 -> 12
      [] host = HostB /\ intf = E1 -> 21
      [] host = HostB /\ intf = E2 -> 22
      [] OTHER -> 99

FreeRemote(host, intf) ==
    [present |-> TRUE, id |-> RemoteId(host, intf), connection_status |-> FALSE,
     connected_endpoint |-> NoEndpoint]

ConnectedRemote(host, intf, end) ==
    [present |-> TRUE, id |-> RemoteId(host, intf), connection_status |-> TRUE,
     connected_endpoint |-> ConnectedTo(end)]

\* every interface name that can be a far end
AllEndpoints ==
    {Endpoint(HostA, E1), Endpoint(HostA, E2), Endpoint(HostB, E1),
     Endpoint(HostB, E2), Endpoint(HostC, E1)}

\* what NetBox can report for one interface
RemoteStates(host, intf) ==
    {NoRemote, FreeRemote(host, intf)}
        \cup { ConnectedRemote(host, intf, end) :
                 end \in { e \in AllEndpoints : e.device # host } }

\* NetworkImporterInterface: is_virtual and remote; a virtual interface is
\* taken with a free and with a connected remote object
InterfaceStates(host, intf) ==
    { [is_virtual |-> FALSE, remote |-> r] : r \in RemoteStates(host, intf) }
        \cup { [is_virtual |-> TRUE, remote |-> r] :
                 r \in {FreeRemote(host, intf),
                        ConnectedRemote(host, intf, Endpoint(HostC, E1))} }

PlainInterface(host, intf) == [is_virtual |-> FALSE, remote |-> FreeRemote(host, intf)]

\* the inventories a pass can start from: devices a and b are in the inventory,
\* c is not; a has e1, b has e1 and e2
Inventories ==
    { (HostA :> (E1 :> ia)) @@ (HostB :> ((E1 :> ib) @@ (E2 :> PlainInterface(HostB, E2)))) :
        ia \in InterfaceStates(HostA, E1), ib \in InterfaceStates(HostB, E1) }

-----------------------------------------------------------------------------
(* The layer-3 edges batfish can answer with *)

Sub7 == <<".", "7">>
Sub8 == <<".", "8">>

\* the layer-3 adjacencies of the analysed network, by interface name: one
\* between the physical ports a:e1 and b:e1, one between subinterfaces of the
\* same two ports, one from a:e1 to another port of b, one to a device outside
\* the inventory and one from an interface NetBox does not know
Topology ==
    { <<Endpoint(HostA, E1), Endpoint(HostB, E1)>>,
      <<Endpoint(HostA, E1 \o Sub7), Endpoint(HostB, E1 \o Sub8)>>,
      <<Endpoint(HostA, E1), Endpoint(HostB, E2)>>,
      <<Endpoint(HostA, E1), Endpoint(HostC, E1)>>,
      <<Endpoint(HostA, E2), Endpoint(HostB, E1)>> }

\* one tuple of layer3Edges: Interface, Remote_Interface; interface_none stands
\* for a row whose Interface.interface is not a string
Edge(l, r) ==
    [local_host |-> l.device, local_intf |-> l.name,
     remote_host |-> r.device, remote_intf |-> r.name,
     interface_none |-> FALSE]

MalformedEdge ==
    [local_host |-> HostA, local_intf |-> <<>>,
     remote_host |-> HostB, remote_intf |-> E1, interface_none |-> TRUE]

\* every adjacency can be listed in either direction
Edges ==
    { Edge(t[1], t[2]) : t \in Topology }
        \cup { Edge(t[2], t[1]) : t \in Topology }
        \cup { MalformedEdge }

-----------------------------------------------------------------------------
(* import_cabling_from_configs: the checks of one loop iteration *)

\* host in self.devs.inventory.hosts.keys()
HostKnown(host) == host \in DOMAIN devs

\* intf in obj.interfaces.keys(); a lookup of an unknown host raises KeyError
IntfKnown(host, intf) == host \in DOMAIN devs /\ intf \in DOMAIN devs[host]

Intf(host, intf) == devs[host][intf]

\* a virtual check that forgets the far end
EitherVirtualLocalOnly(local_host, local_intf, remote_host, remote_intf) ==
    IF Intf(local_host, local_intf).is_virtual THEN "local_virtual" ELSE "none"

\* lines 562-571: which end, if any, is virtual
EitherVirtual(local_host, local_intf, remote_host, remote_intf) ==
    IF Intf(local_host, local_intf).is_virtual THEN "local_virtual"
    ELSE IF Intf(remote_host, remote_intf).is_virtual THEN "remote_virtual"
    ELSE "none"

\* a remote-handle check that lets every interface through
MissingRemoteNone(local_host, local_intf, remote_host, remote_intf) == "none"

\* lines 573-582: which end, if any, has no remote object
MissingRemote(local_host, local_intf, remote_host, remote_intf) ==
    IF ~Intf(local_host, local_intf).remote.present THEN "no_local_remote"
    ELSE IF ~Intf(remote_host, remote_intf).remote.present THEN "no_remote_remote"
    ELSE "none"

\* lines 586-605 and 608-627: the connected endpoint NetBox reports against the
\* other end of the edge; reading .device of None raises AttributeError
CompareEndpoint(reported, other_host, other_intf) ==
    IF ~reported.present THEN "fault"
    ELSE IF reported.device # other_host THEN "device_mismatch"
    ELSE IF other_intf # reported.name THEN "intf_mismatch"
    ELSE "connected"

\* a connection check that takes every interface for unconnected
ConnectionStateIgnored(local_host, local_intf, remote_host, remote_intf) ==
    <<"none", "free">>

\* a connection check that never looks at the far end
ConnectionStateLocalOnly(local_host, local_intf, remote_host, remote_intf) ==
    LET l == Intf(local_host, local_intf).remote
    IN  IF l.connection_status
        THEN <<"local", CompareEndpoint(l.connected_endpoint, remote_host, remote_intf)>>
        ELSE <<"none", "free">>

\* lines 584-629: the if / elif / else on connection_status
ConnectionState(local_host, local_intf, remote_host, remote_intf) ==
    LET l == Intf(local_host, local_intf).remote
        r == Intf(remote_host, remote_intf).remote
    IN  IF l.connection_status
        THEN <<"local", CompareEndpoint(l.connected_endpoint, remote_host, remote_intf)>>
        ELSE IF r.connection_status
        THEN <<"remote", CompareEndpoint(r.connected_endpoint, local_host, local_intf)>>
        ELSE <<"none", "free">>

\* a payload that names the local interface twice
CablePayloadSameEnd(local_host, local_intf, remote_host, remote_intf) ==
    [termination_a_id |-> Intf(local_host, local_intf).remote.id,
     termination_b_id |-> Intf(local_host, local_intf).remote.id]

\* lines 633-638: the arguments of self.nb.dcim.cables.create
CablePayload(local_host, local_intf, remote_host, remote_intf) ==
    [termination_a_id |-> Intf(local_host, local_intf).remote.id,
     termination_b_id |-> Intf(remote_host, remote_intf).remote.id]

\* lines 541-546
HostsMissing(local_host, remote_host) ==
    IF ~HostKnown(local_host) THEN "no_local_host"
    ELSE IF ~HostKnown(remote_host) THEN "no_remote_host"
    ELSE "none"

\* lines 551-560
IntfsMissing(local_host, local_intf, remote_host, remote_intf) ==
    IF ~IntfKnown(local_host, local_intf) THEN "no_local_intf"
    ELSE IF ~IntfKnown(remote_host, remote_intf) THEN "no_remote_intf"
    ELSE "none"

\* lines 537-629, the body of the try up to the create call: the branch one
\* iteration takes, as <<result, end>>.  "fault" is an exception raised inside
\* the try (KeyError, AttributeError), which the bare except catches.
Decision(local_host, local_intf, remote_host, remote_intf, unique_id, processed) ==
    IF unique_id \in processed THEN <<"already_processed", "none">>
    ELSE IF HostsMissing(local_host, remote_host) # "none"
    THEN <<HostsMissing(local_host, remote_host), "none">>
    ELSE IF ~HostKnown(local_host) \/ ~HostKnown(remote_host)
    THEN <<"fault", "none">>
    ELSE IF IntfsMissing(local_host, local_intf, remote_host, remote_intf) # "none"
    THEN <<IntfsMissing(local_host, local_intf, remote_host, remote_intf), "none">>
    ELSE IF ~IntfKnown(local_host, local_intf) \/ ~IntfKnown(remote_host, remote_intf)
    THEN <<"fault", "none">>
    ELSE IF EitherVirtual(local_host, local_intf, remote_host, remote_intf) # "none"
    THEN <<EitherVirtual(local_host, local_intf, remote_host, remote_intf), "none">>
    ELSE IF MissingRemote(local_host, local_intf, remote_host, remote_intf) # "none"
    THEN <<MissingRemote(local_host, local_intf, remote_host, remote_intf), "none">>
    ELSE IF ~Intf(local_host, local_intf).remote.present
    THEN <<"fault", "none">>
    ELSE IF ~Intf(local_host, local_intf).remote.connection_status
            /\ ~Intf(remote_host, remote_intf).remote.present
    THEN <<"fault", "none">>
    ELSE LET c == ConnectionState(local_host, local_intf, remote_host, remote_intf)
         IN  IF c[1] = "none" THEN <<"create", "none">> ELSE <<c[2], c[1]>>

\* line 640: already_connected_links[unique_id] = 1, reached only when the
\* create call of line 633 returned
MarkProcessed(processed, unique_id, result, created) ==
    IF result = "create" /\ created THEN processed \cup {unique_id} ELSE processed

-----------------------------------------------------------------------------
(* import_cabling_from_configs: the pass *)

\* the logger call each branch makes ("none": the branch logs nothing)
LogLevel(result) ==
    CASE result \in {"already_processed", "no_local_host", "no_remote_host",
                     "local_virtual", "remote_virtual"} -> "debug"
      [] result \in {"no_local_intf", "no_remote_intf", "no_local_remote",
                     "no_remote_remote", "device_mismatch", "intf_mismatch",
                     "fault"} -> "warning"
      [] result = "create" -> "info"
      [] OTHER -> "none"

CablingInit ==
    /\ import_cabling \in BOOLEAN
    /\ devs \in Inventories
    /\ links = <<>>
    /\ pos = 0
    /\ pc = "idle"
    /\ run = 1
    /\ already_connected_links = {}
    /\ requests = <<>>
    /\ outcomes = <<>>

\* lines 518-522: return False when the setting is off, else fetch the edges and
\* start from an empty dict
StartCabling ==
    /\ pc = "idle"
    /\ IF import_cabling
       THEN pc' = "loop" /\ already_connected_links' = {} /\ pos' = 0
       ELSE pc' = "returned_false" /\ UNCHANGED <<already_connected_links, pos>>
    /\ UNCHANGED <<import_cabling, devs, links, run, requests, outcomes, init_vars, device_vars>>

\* lines 524-645: one iteration of the for loop over `edge`; `created` is the
\* answer of NetBox to the create call (FALSE: the call raises)
Iteration(edge, created) ==
    IF edge.interface_none
    THEN \* re.sub raises TypeError on line 527, outside the try
         /\ pc' = "aborted"
         /\ pos' = pos + 1
         /\ outcomes' = Append(outcomes,
                [edge |-> edge, key |-> <<>>, result |-> "raised", end |-> "none",
                 log |-> "none", run |-> run, at |-> pos + 1,
                 before |-> already_connected_links,
                 after |-> already_connected_links])
         /\ UNCHANGED <<already_connected_links, requests>>
    ELSE LET local_host == edge.local_host
             local_intf == StripSubinterface(edge.local_intf)
             remote_host == edge.remote_host
             remote_intf == StripSubinterface(edge.remote_intf)
             unique_id == UniqueId(local_host, local_intf, remote_host, remote_intf)
             d == Decision(local_host, local_intf, remote_host, remote_intf,
                           unique_id, already_connected_links)
             sent == d[1] = "create"
             result == IF sent /\ created THEN "create"
                       ELSE IF sent THEN "fault" ELSE d[1]
         IN  /\ pc' = "loop"
             /\ pos' = pos + 1
             /\ requests' =
                    IF sent
                    THEN Append(requests,
                            [payload |-> CablePayload(local_host, local_intf,
                                                      remote_host, remote_intf),
                             key |-> unique_id,
                             local |-> Endpoint(local_host, local_intf),
                             remote |-> Endpoint(remote_host, remote_intf),
                             at |-> pos + 1, ok |-> created, run |-> run])
                    ELSE requests
             /\ already_connected_links' =
                    MarkProcessed(already_connected_links, unique_id, d[1], created)
             /\ outcomes' = Append(outcomes,
                    [edge |-> edge, key |-> unique_id, result |-> result, end |-> d[2],
                     log |-> IF sent /\ ~created THEN "warning" ELSE LogLevel(d[1]),
                     run |-> run, at |-> pos + 1,
                     before |-> already_connected_links,
                     after |-> MarkProcessed(already_connected_links, unique_id,
                                             d[1], created)])

\* the iterator of p2p_links.frame().itertuples() yields one more tuple
NextEdge ==
    /\ pc = "loop"
    /\ run = 1
    /\ Len(links) < MaxLinks
    /\ \E edge \in Edges, created \in BOOLEAN :
          /\ links' = Append(links, edge)
          /\ Iteration(edge, created)
    /\ UNCHANGED <<import_cabling, devs, run, init_vars, device_vars>>

\* the iterator is exhausted: the for loop ends and the method returns
EndOfEdges ==
    /\ pc = "loop"
    /\ pos = Len(links)
    /\ pc' = "done"
    /\ UNCHANGED <<import_cabling, devs, links, pos, run, already_connected_links,
                   requests, outcomes, init_vars, device_vars>>

\* the successful create calls of the first pass that terminate on an interface
CablesOn(host, intf) ==
    { k \in 1..Len(requests) :
        /\ requests[k].ok
        /\ requests[k].run = 1
        /\ Endpoint(host, intf) \in {requests[k].local, requests[k].remote} }

OtherEnd(k, host, intf) ==
    IF requests[k].local = Endpoint(host, intf)
    THEN requests[k].remote ELSE requests[k].local

\* the interface as NetBox reports it once cable k exists (k = 0: no cable)
Refreshed(host, intf, k) ==
    IF k = 0 THEN devs[host][intf]
    ELSE [devs[host][intf] EXCEPT
            !.remote.connection_status = TRUE,
            !.remote.connected_endpoint = ConnectedTo(OtherEnd(k, host, intf))]

\* a new run: the inventory is read again from NetBox, which now reports the
\* cables the first pass created, and the pass restarts over the same edges
SecondRun ==
    /\ pc \in {"done", "aborted"}
    /\ run = 1
    /\ \E sel \in [ {<<h, i>> : h \in DOMAIN devs, i \in {E1, E2}} -> 0..Len(requests) ] :
          /\ \A h \in DOMAIN devs : \A i \in DOMAIN devs[h] :
                sel[<<h, i>>] \in
                    (IF CablesOn(h, i) = {} THEN {0} ELSE CablesOn(h, i))
          /\ \A h \in DOMAIN devs : \A i \in {E1, E2} \ DOMAIN devs[h] :
                sel[<<h, i>>] = 0
          /\ devs' = [h \in DOMAIN devs |->
                        [i \in DOMAIN devs[h] |-> Refreshed(h, i, sel[<<h, i>>])]]
    /\ run' = 2
    /\ pc' = "idle"
    /\ pos' = 0
    /\ UNCHANGED <<import_cabling, links, already_connected_links, requests, outcomes,
                   init_vars, device_vars>>

\* the second pass takes the next of the same tuples
ReplayEdge ==
    /\ pc = "loop"
    /\ run = 2
    /\ pos < Len(links)
    /\ \E created \in BOOLEAN : Iteration(links[pos + 1], created)
    /\ UNCHANGED <<import_cabling, devs, links, run, init_vars, device_vars>>

-----------------------------------------------------------------------------
(* init and check_nb_params *)

SiteSlugs == {"s1", "s2"}

\* how the probe of check_nb_params can end: it returns, or raises
\* requests.exceptions.ConnectionError, pynetbox.core.query.RequestError,
\* another requests.exceptions.RequestException, or an exception of another type
ProbeResults == {"ok", "ConnectionError", "RequestError", "RequestException", "OtherError"}

ProbeErrors == {"ConnectionError", "RequestError", "RequestException"}

\* a host of the inventory before its initialize_devices task has run
PendingHost ==
    [task |-> "pending", failed |-> FALSE, has_obj |-> FALSE, exist_remote |-> FALSE,
     slug |-> "", site |-> ""]

\* what initialize_devices can leave behind for one host: the task succeeds and
\* data["obj"] is set, with or without a remote device (which is in a site), or
\* the task fails, before or after data["obj"] was set
TaskResults ==
    { [task |-> "done", failed |-> f, has_obj |-> o, exist_remote |-> x,
       slug |-> g, site |-> ""] :
        f \in BOOLEAN, o \in BOOLEAN, x \in BOOLEAN, g \in SiteSlugs \cup {""} }

ValidTaskResult(r) ==
    /\ (~r.failed => r.has_obj)
    /\ (~r.has_obj => ~r.exist_remote)
    /\ (r.exist_remote <=> r.slug # "")

NoHosts == [h \in {} |-> PendingHost]

\* the state after NetworkImporter(check_mode) and the reading of the
\* configuration, before init is called
StartupInit ==
    /\ check_mode \in BOOLEAN
    /\ inventory_source \in {"netbox", "configs", "other"}
    /\ generate_hostvars \in BOOLEAN
    /\ hostvars_directory \in BOOLEAN
    /\ init_pc = "start"
    /\ nb = FALSE
    /\ probe = "none"
    /\ bf = FALSE
    /\ inventory_built = FALSE
    /\ hosts = NoHosts
    /\ sites = {}
    /\ exit_status = <<>>
    /\ critical = <<>>

\* the VLAN ids a device can carry
Vids == {100, 200}

\* the settings of the run and the bookkeeping of its per-device steps, before
\* init is called: nothing has run, no site holds a VLAN
RunInit ==
    /\ import_vlans \in {"config", "cli", "no"}
    /\ import_transceivers \in BOOLEAN
    /\ is_reacheable = [h \in {} |-> TRUE]
    /\ failed_hosts = {}
    /\ failures = {}
    /\ included = {}
    /\ vlans = [s \in SiteSlugs |-> <<>>]
    /\ discovered = [s \in SiteSlugs |-> {}]
    /\ run_pc = "init"
    /\ crashed_on = <<>>

\* a task that failed for the hosts of failed leaves them marked unreachable
MarkUnreachable(reach, failed) ==
    [h \in DOMAIN reach |-> IF h \in failed THEN FALSE ELSE reach[h]]

\* the critical message of each except clause of check_nb_params
CriticalFor(error) ==
    CASE error = "ConnectionError" -> "unable to connect"
      [] error = "RequestError" -> "unable to complete a query"
      [] error = "RequestException" -> "unable to connect, check the address and the token"

\* a check_nb_params whose except clauses log and forget sys.exit(1)
CheckNbParamsNoExit ==
    /\ init_pc = "start"
    /\ nb' = TRUE
    /\ \E result \in ProbeResults :
          /\ probe' = result
          /\ IF result \in ProbeErrors
             THEN /\ critical' = Append(critical, CriticalFor(result))
                  /\ init_pc' = "checked"
             ELSE IF result = "ok"
             THEN /\ init_pc' = "checked"
                  /\ UNCHANGED critical
             ELSE /\ init_pc' = "crashed"
                  /\ UNCHANGED critical
    /\ UNCHANGED <<check_mode, inventory_source, generate_hostvars, hostvars_directory,
                   bf, inventory_built, hosts, sites, exit_status, cabling_vars, device_vars>>

\* line 169 and lines 357-385: create the handler when there is none, probe
\* NetBox; the three except clauses log a critical message and call sys.exit(1),
\* any other exception leaves init with a traceback
CheckNbParams ==
    /\ init_pc = "start"
    /\ nb' = TRUE
    /\ \E result \in ProbeResults :
          /\ probe' = result
          /\ IF result \in ProbeErrors
             THEN /\ critical' = Append(critical, CriticalFor(result))
                  /\ exit_status' = <<1>>
                  /\ init_pc' = "exited"
             ELSE IF result = "ok"
             THEN /\ init_pc' = "checked"
                  /\ UNCHANGED <<critical, exit_status>>
             ELSE /\ init_pc' = "crashed"
                  /\ UNCHANGED <<critical, exit_status>>
    /\ UNCHANGED <<check_mode, inventory_source, generate_hostvars, hostvars_directory,
                   bf, inventory_built, hosts, sites, cabling_vars, device_vars>>

\* line 170 and lines 414-432
InitBfSession ==
    /\ init_pc = "checked"
    /\ bf' = TRUE
    /\ init_pc' = "bf_ready"
    /\ UNCHANGED <<check_mode, inventory_source, generate_hostvars, hostvars_directory,
                   nb, probe, inventory_built, hosts, sites, exit_status, critical,
                   cabling_vars, device_vars>>

\* lines 171-184 and 75-153: build the inventory from NetBox or from batfish,
\* or stop with a critical message; then create the hostvars directory when
\* changes are to be written, it is missing and hostvars are generated
BuildInventory ==
    /\ init_pc = "bf_ready"
    /\ IF inventory_source \in {"netbox", "configs"}
       THEN /\ \E found \in SUBSET {HostA, HostB} :
                  /\ hosts' = [h \in found |-> PendingHost]
                  /\ is_reacheable' \in [found -> BOOLEAN]
            /\ inventory_built' = TRUE
            /\ hostvars_directory' =
                  (hostvars_directory \/ (~check_mode /\ generate_hostvars))
            /\ init_pc' = "tasks"
            /\ UNCHANGED <<exit_status, critical>>
       ELSE /\ critical' = Append(critical, "unable to find an inventory")
            /\ exit_status' = <<1>>
            /\ init_pc' = "exited"
            /\ UNCHANGED <<hosts, inventory_built, hostvars_directory, is_reacheable>>
    /\ UNCHANGED <<check_mode, inventory_source, generate_hostvars, nb, probe, bf,
                   sites, cabling_vars, import_vlans, import_transceivers,
                   failed_hosts, failures, included, vlans, discovered, run_pc,
                   crashed_on>>

\* line 193: the initialize_devices task of one host, run by a worker; Nornir
\* keeps a host whose task failed in failed_hosts
InitializeDevice ==
    /\ init_pc = "tasks"
    /\ \E h \in DOMAIN hosts :
          /\ hosts[h].task = "pending"
          /\ \E r \in TaskResults :
                /\ ValidTaskResult(r)
                /\ hosts' = [hosts EXCEPT ![h] = r]
                /\ included' = included \cup {<<"init", h>>}
                /\ IF r.failed
                   THEN /\ failures' = failures \cup {<<"init", h>>}
                        /\ failed_hosts' = failed_hosts \cup {h}
                        /\ is_reacheable' = MarkUnreachable(is_reacheable, {h})
                   ELSE UNCHANGED <<failures, failed_hosts, is_reacheable>>
    /\ UNCHANGED <<check_mode, inventory_source, generate_hostvars, hostvars_directory,
                   init_pc, nb, probe, bf, inventory_built, sites, exit_status,
                   critical, cabling_vars, import_vlans, import_transceivers,
                   vlans, discovered, run_pc, crashed_on>>

\* the hosts in the order the inventory lists them
HostOrder == <<HostA, HostB>>

\* the first host of the inventory that is in among
FirstHost(among) ==
    HostOrder[CHOOSE i \in 1..Len(HostOrder) :
                 /\ HostOrder[i] \in among
                 /\ \A j \in 1..(i - 1) : HostOrder[j] \notin among]

\* lines 208-223 for the hosts HostOrder[n..]: <<sites, hosts, crashed>>;
\* dev.data["obj"] of a host without obj raises KeyError
RECURSIVE SitesLoop(_, _, _)
SitesLoop(n, known, hs) ==
    IF n > Len(HostOrder) THEN <<known, hs, FALSE>>
    ELSE LET h == HostOrder[n]
         IN  IF h \notin DOMAIN hs THEN SitesLoop(n + 1, known, hs)
             ELSE IF ~hs[h].has_obj THEN <<known, hs, TRUE>>
             ELSE IF ~hs[h].exist_remote THEN SitesLoop(n + 1, known, hs)
             ELSE SitesLoop(n + 1, known \cup {hs[h].slug},
                            [hs EXCEPT ![h].site = hs[h].slug])

\* lines 195-225: all tasks are back; warn about the failed ones, then give
\* every host that exists in NetBox its site, creating the site on first use
CreateSites ==
    /\ init_pc = "tasks"
    /\ \A h \in DOMAIN hosts : hosts[h].task = "done"
    /\ LET r == SitesLoop(1, sites, hosts)
       IN  /\ sites' = r[1]
           /\ hosts' = r[2]
           /\ init_pc' = IF r[3] THEN "crashed" ELSE "returned"
           /\ included' = included \cup
                  {<<"sites", h>> : h \in {x \in DOMAIN hosts : r[2][x].site # ""}}
           /\ crashed_on' =
                  IF r[3] THEN <<FirstHost({x \in DOMAIN hosts : ~hosts[x].has_obj})>>
                  ELSE crashed_on
    /\ UNCHANGED <<check_mode, inventory_source, generate_hostvars, hostvars_directory,
                   nb, probe, bf, inventory_built, exit_status, critical, cabling_vars,
                   import_vlans, import_transceivers, is_reacheable, failed_hosts,
                   failures, vlans, discovered, run_pc>>

-----------------------------------------------------------------------------
(* The per-device steps of a run after init *)

\* the vids of the Vlan records of a site
VidsOf(reg) == { reg[i].vid : i \in 1..Len(reg) }

\* an inverted test of lines 295-300: a vid counts as missing when it is there
VlanMissingInverted(reg, vid) == vid \in VidsOf(reg)

\* lines 295-300: vlan["vlan_id"] not in site.vlans.keys()
VlanMissing(reg, vid) == vid \notin VidsOf(reg)

\* site.add_vlan and site.add_vlan2: insertion keyed by vid, a vid that is
\* already there keeps its record
AddVlan(reg, vlan) ==
    IF vlan.vid \in VidsOf(reg) THEN reg ELSE Append(reg, vlan)

\* the vids in the order a device lists them
VidOrder == <<100, 200>>

\* what the import loops carry from host to host
LoopState == [vlans |-> vlans, discovered |-> discovered, included |-> included,
              crashed_on |-> crashed_on]

\* lines 254-260 for the vids VidOrder[i..] that batfish found on a device
\* of site
RECURSIVE AddConfigVlans(_, _, _)
AddConfigVlans(i, reg, found) ==
    IF i > Len(VidOrder) THEN reg
    ELSE IF VidOrder[i] \notin found THEN AddConfigVlans(i + 1, reg, found)
    ELSE AddConfigVlans(i + 1,
                        AddVlan(reg, [vid |-> VidOrder[i],
                                      name |-> <<"vlan-", VidOrder[i]>>]),
                        found)

\* lines 234-260 for the hosts HostOrder[n..]: host.data["obj"] of a host
\* without obj raises KeyError, dev.site of a device that was given no site
\* has no add_vlan
RECURSIVE ConfigsLoop(_, _, _)
ConfigsLoop(n, st, bf_vlans) ==
    IF n > Len(HostOrder) THEN st
    ELSE LET h == HostOrder[n]
         IN  IF h \notin DOMAIN hosts THEN ConfigsLoop(n + 1, st, bf_vlans)
             ELSE IF ~hosts[h].has_obj THEN [st EXCEPT !.crashed_on = <<h>>]
             ELSE LET seen == [st EXCEPT !.included = @ \cup {<<"configs", h>>}]
                      site == hosts[h].site
                  IN  IF import_vlans # "config" \/ bf_vlans[h] = {}
                      THEN ConfigsLoop(n + 1, seen, bf_vlans)
                      ELSE IF site = "" THEN [seen EXCEPT !.crashed_on = <<h>>]
                      ELSE ConfigsLoop(n + 1,
                              [seen EXCEPT
                                 !.vlans[site] = AddConfigVlans(1, @, bf_vlans[h]),
                                 !.discovered[site] = @ \cup { <<vid, h>> : vid \in bf_vlans[h] }],
                              bf_vlans)

\* lines 228-262: every host of the inventory, whatever its tasks returned
ImportDevicesFromConfigs ==
    /\ init_pc = "returned"
    /\ run_pc = "init"
    /\ \E bf_vlans \in [DOMAIN hosts -> SUBSET Vids] :
          /\ (import_vlans # "config" => \A h \in DOMAIN hosts : bf_vlans[h] = {})
          /\ LET st == ConfigsLoop(1, LoopState, bf_vlans)
             IN  /\ vlans' = st.vlans
                 /\ discovered' = st.discovered
                 /\ included' = st.included
                 /\ crashed_on' = st.crashed_on
                 /\ run_pc' = IF st.crashed_on # crashed_on THEN "crashed"
                              ELSE "configs_done"
    /\ UNCHANGED <<import_vlans, import_transceivers, is_reacheable, failed_hosts,
                   failures, init_vars, cabling_vars>>

\* the filter of lines 270, 277-279 and 313-315: the hosts whose
\* data["is_reacheable"] is true; on_failed=True keeps the hosts of failed_hosts
Reacheable == { h \in DOMAIN hosts : is_reacheable[h] }

\* lines 270-274: check_if_reacheable on the hosts that pass the filter
CmdsReachability ==
    /\ run_pc = "configs_done"
    /\ \E failed \in SUBSET Reacheable :
          /\ included' = included \cup { <<"reach", h>> : h \in Reacheable }
          /\ failures' = failures \cup { <<"reach", h>> : h \in failed }
          /\ failed_hosts' = failed_hosts \cup failed
          /\ is_reacheable' = MarkUnreachable(is_reacheable, failed)
    /\ run_pc' = "reach_done"
    /\ UNCHANGED <<import_vlans, import_transceivers, vlans, discovered, crashed_on,
                   init_vars, cabling_vars>>

\* what collect_vlans_info can return for one host: the task failed, the
\* result has no "vlans", or it lists the VLANs of the device
VlanResults ==
    {[kind |-> "failed", vids |-> {}], [kind |-> "no_vlans", vids |-> {}]}
        \cup { [kind |-> "vlans", vids |-> found] : found \in SUBSET Vids }

\* lines 294-307 for the vids VidOrder[i..] of the result of host h
RECURSIVE CliVlans(_, _, _, _)
CliVlans(i, st, h, found) ==
    IF i > Len(VidOrder) THEN st
    ELSE IF VidOrder[i] \notin found THEN CliVlans(i + 1, st, h, found)
    ELSE LET vid == VidOrder[i]
             site == hosts[h].site
         IN  IF ~hosts[h].has_obj \/ site = "" THEN [st EXCEPT !.crashed_on = <<h>>]
             ELSE LET met == [st EXCEPT !.discovered[site] = @ \cup {<<vid, h>>}]
                  IN  IF VlanMissing(met.vlans[site], vid)
                      THEN CliVlans(i + 1,
                              [met EXCEPT !.vlans[site] =
                                  AddVlan(AddVlan(@, [vid |-> vid, name |-> <<"cli", vid>>]),
                                          [vid |-> vid, name |-> <<"cli", vid>>])],
                              h, found)
                      ELSE CliVlans(i + 1, met, h, found)

\* lines 281-307 for the results of the hosts HostOrder[n..]
RECURSIVE CmdsVlansLoop(_, _, _)
CmdsVlansLoop(n, st, results) ==
    IF n > Len(HostOrder) THEN st
    ELSE LET h == HostOrder[n]
         IN  IF h \notin DOMAIN results THEN CmdsVlansLoop(n + 1, st, results)
             ELSE IF results[h].kind # "vlans" THEN CmdsVlansLoop(n + 1, st, results)
             ELSE LET after == CliVlans(1, st, h, results[h].vids)
                  IN  IF after.crashed_on # st.crashed_on THEN after
                      ELSE CmdsVlansLoop(n + 1, after, results)

\* lines 276-307: collect_vlans_info on the hosts that pass the filter, then
\* the results one after the other
CmdsVlans ==
    /\ run_pc = "reach_done"
    /\ IF import_vlans = "cli"
       THEN \E results \in [Reacheable -> VlanResults] :
               LET failed == { h \in Reacheable : results[h].kind = "failed" }
                   st == CmdsVlansLoop(1, LoopState, results)
               IN  /\ included' = included \cup { <<"vlans", h>> : h \in Reacheable }
                   /\ failures' = failures \cup { <<"vlans", h>> : h \in failed }
                   /\ failed_hosts' = failed_hosts \cup failed
                   /\ is_reacheable' = MarkUnreachable(is_reacheable, failed)
                   /\ vlans' = st.vlans
                   /\ discovered' = st.discovered
                   /\ crashed_on' = st.crashed_on
                   /\ run_pc' = IF st.crashed_on # crashed_on THEN "crashed"
                                ELSE "vlans_done"
       ELSE /\ run_pc' = "vlans_done"
            /\ UNCHANGED <<included, failures, failed_hosts, is_reacheable, vlans,
                           discovered, crashed_on>>
    /\ UNCHANGED <<import_vlans, import_transceivers, init_vars, cabling_vars>>

\* what collect_transceivers_info can return for one host: the task failed,
\* the result is no list, the list is empty, or it holds transceivers
OpticResults == {"failed", "not_list", "empty", "found"}

\* lines 309-344: collect_transceivers_info on the hosts that pass the filter;
\* add_optic goes through data["obj"] of the host, where a host without obj
\* raises KeyError
CmdsTransceivers ==
    /\ run_pc = "vlans_done"
    /\ IF import_transceivers
       THEN \E results \in [Reacheable -> OpticResults] :
               LET failed == { h \in Reacheable : results[h] = "failed" }
                   raising == { h \in Reacheable :
                                  results[h] = "found" /\ ~hosts[h].has_obj }
               IN  /\ included' = included \cup { <<"optics", h>> : h \in Reacheable }
                   /\ failures' = failures \cup { <<"optics", h>> : h \in failed }
                   /\ failed_hosts' = failed_hosts \cup failed
                   /\ is_reacheable' = MarkUnreachable(is_reacheable, failed)
                   /\ IF raising # {}
                      THEN /\ crashed_on' = <<FirstHost(raising)>>
                           /\ run_pc' = "crashed"
                      ELSE /\ run_pc' = "cmds_done"
                           /\ UNCHANGED crashed_on
       ELSE /\ run_pc' = "cmds_done"
            /\ UNCHANGED <<included, failures, failed_hosts, is_reacheable, crashed_on>>
    /\ UNCHANGED <<import_vlans, import_transceivers, vlans, discovered, init_vars,
                   cabling_vars>>

\* lines 491-508: the sites write their VLANs, then device_update_remote on
\* the hosts Nornir does not hold as failed; is_reacheable is not read
UpdateRemote ==
    /\ run_pc = "cmds_done"
    /\ LET chosen == DOMAIN hosts \ failed_hosts
       IN  \E failed \in SUBSET chosen :
              /\ included' = included \cup { <<"update", h>> : h \in chosen }
              /\ failures' = failures \cup { <<"update", h>> : h \in failed }
              /\ failed_hosts' = failed_hosts \cup failed
              /\ is_reacheable' = MarkUnreachable(is_reacheable, failed)
    /\ run_pc' = "updated"
    /\ UNCHANGED <<import_vlans, import_transceivers, vlans, discovered, crashed_on,
                   init_vars, cabling_vars>>

-----------------------------------------------------------------------------
(* Specifications *)

\* the cabling pass is taken after a start-up that went through, with the
\* importer in check mode or not
StartupDone ==
    /\ check_mode \in BOOLEAN
    /\ inventory_source = "netbox"
    /\ generate_hostvars = FALSE
    /\ hostvars_directory = FALSE
    /\ init_pc = "returned"
    /\ nb = TRUE
    /\ probe = "ok"
    /\ bf = TRUE
    /\ inventory_built = TRUE
    /\ hosts = [h \in {HostA, HostB} |->
                  [task |-> "done", failed |-> FALSE, has_obj |-> TRUE,
                   exist_remote |-> TRUE, slug |-> "s1", site |-> "s1"]]
    /\ sites = {"s1"}
    /\ exit_status = <<>>
    /\ critical = <<>>

\* the per-device steps went through for both hosts, no VLANs imported
RunDone ==
    /\ import_vlans = "no"
    /\ import_transceivers = FALSE
    /\ is_reacheable = [h \in {HostA, HostB} |-> TRUE]
    /\ failed_hosts = {}
    /\ failures = {}
    /\ included = { <<step, h>> : step \in {"init", "sites", "configs", "reach"},
                                  h \in {HostA, HostB} }
    /\ vlans = [s \in SiteSlugs |-> <<>>]
    /\ discovered = [s \in SiteSlugs |-> {}]
    /\ run_pc = "cmds_done"
    /\ crashed_on = <<>>

Init == CablingInit /\ StartupDone /\ RunDone

Next == StartCabling \/ NextEdge \/ EndOfEdges

\* one pass of import_cabling_from_configs
Spec == Init /\ [][Next]_vars

InitRerun == Init /\ ~check_mode

NextRerun == StartCabling \/ NextEdge \/ EndOfEdges \/ SecondRun \/ ReplayEdge

\* a pass that writes to NetBox, a new run against the updated NetBox, the
\* same pass again
SpecRerun == InitRerun /\ [][NextRerun]_vars

\* the cabling pass has not been called
CablingIdle ==
    /\ import_cabling = TRUE
    /\ devs = [h \in {HostA, HostB} |->
                 IF h = HostA THEN (E1 :> PlainInterface(HostA, E1))
                 ELSE (E1 :> PlainInterface(HostB, E1)) @@ (E2 :> PlainInterface(HostB, E2))]
    /\ links = <<>>
    /\ pos = 0
    /\ pc = "idle"
    /\ run = 1
    /\ already_connected_links = {}
    /\ requests = <<>>
    /\ outcomes = <<>>

InitStartup == StartupInit /\ RunInit /\ CablingIdle

NextStartup ==
    CheckNbParams \/ InitBfSession \/ BuildInventory \/ InitializeDevice \/ CreateSites

\* NetworkImporter.init
SpecStartup == InitStartup /\ [][NextStartup]_vars

\* a run against NetBox in check mode
InitDevices ==
    /\ InitStartup
    /\ check_mode
    /\ inventory_source = "netbox"
    /\ ~generate_hostvars
    /\ ~hostvars_directory

NextDevices ==
    \/ CheckNbParams
    \/ InitBfSession
    \/ BuildInventory
    \/ InitializeDevice
    \/ CreateSites
    \/ ImportDevicesFromConfigs
    \/ CmdsReachability
    \/ CmdsVlans
    \/ CmdsTransceivers
    \/ UpdateRemote

\* init, then the import from the configurations, the import from the
\* devices and the update of NetBox
SpecDevices == InitDevices /\ [][NextDevices]_vars

-----------------------------------------------------------------------------
(* Vocabulary of the properties *)

\* the iterations of the pass that is running
Iterations == { k \in 1..Len(outcomes) : outcomes[k].run = run }

\* the create calls made by iteration k
RequestsOf(k) ==
    { n \in 1..Len(requests) :
        requests[n].run = outcomes[k].run /\ requests[n].at = outcomes[k].at }

\* the two ends of the edge of iteration k, by physical interface name
LocalEnd(k) ==
    Endpoint(outcomes[k].edge.local_host, StripSubinterface(outcomes[k].edge.local_intf))

RemoteEnd(k) ==
    Endpoint(outcomes[k].edge.remote_host, StripSubinterface(outcomes[k].edge.remote_intf))

WellFormed(k) == ~outcomes[k].edge.interface_none

InInventory(end) == end.device \in DOMAIN devs /\ end.name \in DOMAIN devs[end.device]

BothInInventory(k) == WellFormed(k) /\ InInventory(LocalEnd(k)) /\ InInventory(RemoteEnd(k))

RemoteOf(end) == devs[end.device][end.name].remote

\* both ends exist, are not virtual and carry a remote object
Eligible(k) ==
    /\ BothInInventory(k)
    /\ ~devs[LocalEnd(k).device][LocalEnd(k).name].is_virtual
    /\ ~devs[RemoteEnd(k).device][RemoteEnd(k).name].is_virtual
    /\ RemoteOf(LocalEnd(k)).present
    /\ RemoteOf(RemoteEnd(k)).present

\* NetBox reports `end` connected
Connected(end) == RemoteOf(end).connection_status /\ RemoteOf(end).connected_endpoint.present

\* NetBox reports `end` connected to exactly `other`
ConnectedExactly(end, other) ==
    /\ Connected(end)
    /\ RemoteOf(end).connected_endpoint.device = other.device
    /\ RemoteOf(end).connected_endpoint.name = other.name

\* the end whose connection the pass has to judge: the local one when it is
\* connected, else the remote one
JudgedEnd(k) == IF Connected(LocalEnd(k)) THEN LocalEnd(k) ELSE RemoteEnd(k)

FarEnd(k) == IF Connected(LocalEnd(k)) THEN RemoteEnd(k) ELSE LocalEnd(k)

\* the unordered pair of "host:interface" strings of a create call
PairOf(n) ==
    { EndpointStr(requests[n].local.device, requests[n].local.name),
      EndpointStr(requests[n].remote.device, requests[n].remote.name) }

TerminationsOf(n) ==
    { requests[n].payload.termination_a_id, requests[n].payload.termination_b_id }

SkipResults ==
    { "no_local_host", "no_remote_host", "no_local_intf", "no_remote_intf",
      "local_virtual", "remote_virtual", "no_local_remote", "no_remote_remote" }

-----------------------------------------------------------------------------
(* C1 *)

\* C1 as stated: within one pass, all edges with the same unordered pair of
\* "host:interface" strings (subinterface suffix stripped) cause at most one
\* create call.
C1_AtMostOneRequestPerKey ==
    \A m, n \in 1..Len(requests) :
        (m < n /\ requests[m].run = requests[n].run) => PairOf(m) # PairOf(n)

\* C1 amended: within one pass, once a create call for a pair of endpoints has
\* returned, no later edge with the same unordered pair (either direction, any
\* subinterface) causes another create call; so at most one cable is created
\* per pair.  A create call that raised may be followed by another one.
C1_NoRequestAfterCreatedKey ==
    \A m, n \in 1..Len(requests) :
        (m < n /\ requests[m].run = requests[n].run /\ PairOf(m) = PairOf(n))
            => ~requests[m].ok

\* an edge created a cable and a later edge of the same link, listed in the
\* other direction and on other subinterfaces, was skipped as already processed
C1_Witness ==
    \E j, k \in Iterations :
        /\ j < k
        /\ WellFormed(j) /\ WellFormed(k)
        /\ outcomes[j].result = "create"
        /\ outcomes[j].edge.local_host = outcomes[k].edge.remote_host
        /\ outcomes[j].edge.local_intf # outcomes[k].edge.remote_intf
        /\ LocalEnd(j) = RemoteEnd(k) /\ RemoteEnd(j) = LocalEnd(k)
        /\ outcomes[k].result = "already_processed"
        /\ RequestsOf(k) = {}

-----------------------------------------------------------------------------
(* C2 *)

\* the connection NetBox reports for the judged end of edge k is to another
\* device, or to another interface of the expected device
Mismatch(k) ==
    /\ Eligible(k)
    /\ Connected(JudgedEnd(k))
    /\ ~ConnectedExactly(JudgedEnd(k), FarEnd(k))

MismatchKind(k) ==
    IF RemoteOf(JudgedEnd(k)).connected_endpoint.device # FarEnd(k).device
    THEN "device_mismatch" ELSE "intf_mismatch"

\* C2: an eligible edge whose local end is reported connected to another device
\* or another interface than the remote end, or whose local end is not
\* connected and whose remote end is so mismatched, is reported with a warning
\* of that kind, sends no create call and leaves the processed keys unchanged.
C2_MismatchIsReportedOnly ==
    \A k \in Iterations :
        Mismatch(k) =>
            /\ outcomes[k].result = MismatchKind(k)
            /\ outcomes[k].log = "warning"
            /\ RequestsOf(k) = {}
            /\ outcomes[k].after = outcomes[k].before

\* an edge whose local end is free and whose remote end is cabled to another
\* interface of the local device was reported as an interface mismatch
C2_Witness ==
    \E k \in Iterations :
        /\ Mismatch(k)
        /\ ~RemoteOf(LocalEnd(k)).connection_status
        /\ outcomes[k].end = "remote"
        /\ outcomes[k].result = "intf_mismatch"
        /\ RequestsOf(k) = {}

-----------------------------------------------------------------------------
(* C3 *)

\* C3: within one pass no interface is a termination of a second create call
\* once a cable has been created on it.
C3_OneCablePerInterface ==
    \A m, n \in 1..Len(requests) :
        (m < n /\ requests[m].run = requests[n].run /\ requests[m].ok)
            => TerminationsOf(m) \cap TerminationsOf(n) = {}

-----------------------------------------------------------------------------
(* C4 *)

\* C4: a fault in one iteration, wherever it is raised, is logged with the key
\* of the link and never ends the pass.
C4_FaultNeverAborts ==
    /\ pc # "aborted"
    /\ \A k \in 1..Len(outcomes) :
          outcomes[k].result \in {"fault", "raised"}
              => outcomes[k].log = "warning" /\ outcomes[k].key # <<>>

-----------------------------------------------------------------------------
(* C5 *)

EitherEndVirtual(k) ==
    /\ BothInInventory(k)
    /\ \/ devs[LocalEnd(k).device][LocalEnd(k).name].is_virtual
       \/ devs[RemoteEnd(k).device][RemoteEnd(k).name].is_virtual

\* C5: an edge with a virtual interface at either end sends no create call,
\* whatever NetBox reports about the connection of the two interfaces.
C5_VirtualNeverCabled ==
    \A k \in Iterations : EitherEndVirtual(k) => RequestsOf(k) = {}

\* an edge from a free physical interface to a free virtual interface, which
\* only the virtual check keeps from being cabled, was skipped
C5_Witness ==
    \E k \in Iterations :
        /\ BothInInventory(k)
        /\ ~devs[LocalEnd(k).device][LocalEnd(k).name].is_virtual
        /\ devs[RemoteEnd(k).device][RemoteEnd(k).name].is_virtual
        /\ RemoteOf(LocalEnd(k)).present /\ ~RemoteOf(LocalEnd(k)).connection_status
        /\ RemoteOf(RemoteEnd(k)).present /\ ~RemoteOf(RemoteEnd(k)).connection_status
        /\ outcomes[k].result = "remote_virtual"
        /\ RequestsOf(k) = {}

-----------------------------------------------------------------------------
(* C6 *)

\* edge k is a new link: its key is not processed, both ends are eligible and
\* NetBox reports neither end connected
NewLink(k) ==
    /\ Eligible(k)
    /\ outcomes[k].key \notin outcomes[k].before
    /\ ~RemoteOf(LocalEnd(k)).connection_status
    /\ ~RemoteOf(RemoteEnd(k)).connection_status

\* the create calls of iteration k are one call between the remote ids of the
\* two interfaces of the edge
OneRequestBetweenEnds(k) ==
    /\ Cardinality(RequestsOf(k)) = 1
    /\ \A n \in RequestsOf(k) :
          /\ requests[n].payload.termination_a_id = RemoteOf(LocalEnd(k)).id
          /\ requests[n].payload.termination_b_id = RemoteOf(RemoteEnd(k)).id

\* C6 as stated: a new link sends exactly one create call between the remote
\* ids of its two interfaces and then has its key in the processed set.
C6_NewLinkCreatedAndMarked ==
    \A k \in Iterations :
        NewLink(k) =>
            /\ OneRequestBetweenEnds(k)
            /\ outcomes[k].after = outcomes[k].before \cup {outcomes[k].key}

\* C6 amended: a new link sends exactly one create call between the remote ids
\* of its two interfaces; when the call returns the key is added to the
\* processed set, when it raises the fault is logged and the set is unchanged.
C6_NewLinkCreatedMarkedOnSuccess ==
    \A k \in Iterations :
        NewLink(k) =>
            /\ OneRequestBetweenEnds(k)
            /\ \A n \in RequestsOf(k) :
                  IF requests[n].ok
                  THEN /\ outcomes[k].result = "create"
                       /\ outcomes[k].after = outcomes[k].before \cup {outcomes[k].key}
                  ELSE /\ outcomes[k].result = "fault"
                       /\ outcomes[k].log = "warning"
                       /\ outcomes[k].after = outcomes[k].before

\* a new link between two different interfaces was created and marked
C6_Witness ==
    \E k \in Iterations :
        /\ NewLink(k)
        /\ RemoteOf(LocalEnd(k)).id # RemoteOf(RemoteEnd(k)).id
        /\ \E n \in RequestsOf(k) : requests[n].ok
        /\ outcomes[k].key \in outcomes[k].after
        /\ outcomes[k].key \in already_connected_links

-----------------------------------------------------------------------------
(* C7 *)

\* NetBox reports one end of edge k connected to exactly the other end
AlreadyCabled(k) ==
    /\ Eligible(k)
    /\ \/ ConnectedExactly(LocalEnd(k), RemoteEnd(k))
       \/ ConnectedExactly(RemoteEnd(k), LocalEnd(k))

\* C7: an edge with an end that is reported connected to exactly the other end
\* sends no create call, reports no conflict and has its key marked processed.
C7_AlreadyCabledIsMarked ==
    \A k \in Iterations :
        AlreadyCabled(k) =>
            /\ RequestsOf(k) = {}
            /\ outcomes[k].result \notin {"device_mismatch", "intf_mismatch"}
            /\ outcomes[k].key \in outcomes[k].after

-----------------------------------------------------------------------------
(* C9 *)

\* a host is not in the inventory, an interface is not on its device, or an
\* interface has no remote object
NotUsable(k) ==
    /\ WellFormed(k)
    /\ \/ ~BothInInventory(k)
       \/ ~RemoteOf(LocalEnd(k)).present
       \/ ~RemoteOf(RemoteEnd(k)).present

\* C9: an edge with a host outside the inventory, an interface unknown to its
\* device or an interface without remote object is skipped with a diagnostic:
\* no create call, no change of the processed keys, and the loop goes on.
C9_UnusableIsSkipped ==
    \A k \in Iterations :
        NotUsable(k) =>
            /\ outcomes[k].result \in SkipResults
            /\ outcomes[k].log \in {"debug", "warning"}
            /\ RequestsOf(k) = {}
            /\ outcomes[k].after = outcomes[k].before
            /\ (k = Len(outcomes) => pc \in {"loop", "done"})

\* an edge to an interface without remote object was skipped and the next edge
\* was processed
C9_Witness ==
    \E k \in Iterations :
        /\ BothInInventory(k)
        /\ RemoteOf(LocalEnd(k)).present
        /\ ~RemoteOf(RemoteEnd(k)).present
        /\ outcomes[k].result = "no_remote_remote"
        /\ RequestsOf(k) = {}
        /\ k < Len(outcomes)
        /\ outcomes[k + 1].result = "create"

-----------------------------------------------------------------------------
(* C8 *)

RequestsOfRun(r) == { n \in 1..Len(requests) : requests[n].run = r }

\* C8 as stated: the second pass, over the same edges and against a NetBox that
\* reports the cables of the first pass, sends no create call.
C8_SecondRunSendsNothing == RequestsOfRun(2) = {}

\* C8 amended: every create call of the second pass is for a link whose create
\* call raised in the first pass and which therefore has no cable yet; when no
\* create call of the first pass raised, the second pass sends none.
C8_SecondRunOnlyRetriesFaults ==
    /\ \A n \in RequestsOfRun(2) :
          \E m \in RequestsOfRun(1) :
              /\ requests[m].key = requests[n].key
              /\ ~requests[m].ok
              /\ \A c \in RequestsOfRun(1) :
                    requests[c].ok => TerminationsOf(c) \cap TerminationsOf(n) = {}
    /\ (\A m \in RequestsOfRun(1) : requests[m].ok) => RequestsOfRun(2) = {}

\* the first pass created a cable and the second pass, finished, found the same
\* edge connected and sent nothing
C8_Witness ==
    /\ run = 2
    /\ pc = "done"
    /\ \E m \in RequestsOfRun(1) : requests[m].ok
    /\ RequestsOfRun(2) = {}
    /\ \E j, k \in 1..Len(outcomes) :
          /\ outcomes[j].run = 1 /\ outcomes[k].run = 2
          /\ outcomes[j].at = outcomes[k].at
          /\ outcomes[j].result = "create"
          /\ outcomes[k].result = "connected"

-----------------------------------------------------------------------------
(* C10 *)

\* C10: when the probe of check_nb_params raises a connection or request
\* error, the process has exited with status 1 and a critical message, and
\* no batfish session, no inventory, no device task and no site exists.
C10_ProbeErrorStopsBeforeInit ==
    probe \in ProbeErrors =>
        /\ init_pc = "exited"
        /\ exit_status = <<1>>
        /\ critical = <<CriticalFor(probe)>>
        /\ ~bf
        /\ ~inventory_built
        /\ DOMAIN hosts = {}
        /\ sites = {}

\* the probe raised pynetbox's RequestError and the process has exited
C10_Witness ==
    /\ probe = "RequestError"
    /\ init_pc = "exited"
    /\ exit_status = <<1>>
    /\ Len(critical) = 1

-----------------------------------------------------------------------------
(* C11 *)

\* the place of a per-device step in the run
StepRank(step) ==
    CASE step = "init" -> 1
      [] step = "sites" -> 2
      [] step = "configs" -> 3
      [] step = "reach" -> 4
      [] step = "vlans" -> 5
      [] step = "optics" -> 6
      [] step = "update" -> 7

\* C11: a device whose per-device task failed is marked unreachable, no later
\* per-device step of the run is taken for it, and it does not stop the
\* processing of the other devices.
C11_FailedDeviceIsExcluded ==
    \A f \in failures :
        /\ ~is_reacheable[f[2]]
        /\ \A s \in included : s[2] = f[2] => StepRank(s[1]) <= StepRank(f[1])
        /\ crashed_on # <<f[2]>>

-----------------------------------------------------------------------------
(* C12 *)

\* the vids the import loops met for a site
DiscoveredVids(site) == { d[1] : d \in discovered[site] }

-----------------------------------------------------------------------------
(* C13 *)

\* C13: an importer constructed with check_mode = True sends no create call
\* from import_cabling_from_configs; create calls are only sent with
\* check_mode false and the import_cabling setting on.
C13_CheckModeSendsNothing ==
    requests # <<>> => (~check_mode /\ import_cabling)

====
